---- MODULE Spec2Model ----
(***************************************************************************)
(* The UserCreation express state machine of lib/state-machine-stack.ts:   *)
(* FindLastId -> CreateDynamoDBUser -> CreateCognitoUser -> Pass, with the *)
(* catch edges CreateDynamoDBUser -> CorrectLastId -> FindLastId and       *)
(* CreateCognitoUser -> RollbackUser -> Fail.  Several executions run      *)
(* concurrently against one table (SampleUsers) and one user pool.         *)
(* Strings of digits (the DynamoDB N attribute as returned by getItem, and *)
(* $.context.userId) are sequences of digits 0..9.                         *)
(***************************************************************************)
EXTENDS Integers, Sequences, FiniteSets, TLC

\* ---------------------------------------------------------------- bounds
NumInvocations == 2
\* events an execution may log; no execution of the state machine gets there
MaxSteps == 6

Invocations == 1..NumInvocations

\* values of LastId the USERMETADATA record may have been seeded with
StartIds == {8}
\* caller-supplied inputs
Persons ==
    { [firstName |-> "Ann", lastName |-> "A", emailAddress |-> "ann@x.org", phoneNumber |-> "1"],
      [firstName |-> "Bob", lastName |-> "B", emailAddress |-> "bob@x.org", phoneNumber |-> "2"] }
\* usernames that may exist in the user pool before any execution starts
SeedUsernames == { <<9>>, <<1, 0>> }

\* ------------------------------------------------- intrinsic functions
\* canonical decimal rendering of a number: DynamoDB returns N as a string,
\* States.Format('{}', n) renders a number
RECURSIVE FormatLowDigitFirst(_)
FormatLowDigitFirst(n) ==
    IF n < 10 THEN <<n>> ELSE <<n % 10>> \o FormatLowDigitFirst(n \div 10)

RECURSIVE Format(_)
Format(n) == IF n < 10 THEN <<n>> ELSE Format(n \div 10) \o <<n % 10>>

\* States.StringToJson on a string of digits; also DynamoDB reading "N.$"
RECURSIVE StringToJson(_)
StringToJson(s) ==
    IF Len(s) = 0 THEN 0
    ELSE StringToJson(SubSeq(s, 1, Len(s) - 1)) * 10 + s[Len(s)]

MathAddOffByOne(a, b) == a + b + 1

MathAdd(a, b) == a + b

\* States.Format('USERPROFILE#{}', $.context.userId), used for PK and SK
ProfileKey(userId) == <<"USERPROFILE#", userId>>

\* --------------------------------------------------------------- state
VARIABLES
    pc,        \* state each execution is about to run, or its terminal state
    input,     \* caller-supplied fields of the execution input
    context,   \* $.context written by FindLastId
    error,     \* $.error written by a catch
    cause,     \* error that failed the execution, "" if none
    metadata,  \* the USERMETADATA record
    profiles,  \* the USERPROFILE# records, by key
    pool,      \* the user pool, by username
    history    \* execution event history (LogLevel.ALL)

vars == <<pc, input, context, error, cause, metadata, profiles, pool, history>>

NoContext == [previousUserId |-> <<>>, userId |-> <<>>]
NoMetadata == [exists |-> FALSE, LastId |-> 0]

TaskStates == {"FindLastId", "CreateDynamoDBUser", "CreateCognitoUser",
               "CorrectLastId", "RollbackUser"}
Stopped == {"Pass", "Fail", "Aborted"}

\* ------------------------------------------------------- the step graph
\* addCatch of each state
Catch(state) ==
    CASE state = "CreateCognitoUser" ->
            [errors |-> {"CognitoIdentityProvider.UsernameExistsException"},
             next |-> "RollbackUser"]
      [] state = "CreateDynamoDBUser" ->
            [errors |-> {"DynamoDB.ConditionalCheckFailedException",
                         "DynamoDb.TransactionCanceledException"},
             next |-> "CorrectLastId"]
      [] OTHER -> [errors |-> {}, next |-> "Aborted"]

NextStateRetryAfterRollback(state) ==
    CASE state = "FindLastId" -> "CreateDynamoDBUser"
      [] state = "CreateDynamoDBUser" -> "CreateCognitoUser"
      [] state = "CreateCognitoUser" -> "Pass"
      [] state = "CorrectLastId" -> "FindLastId"
      [] state = "RollbackUser" -> "FindLastId"

NextStateRegisterAgain(state) ==
    CASE state = "FindLastId" -> "CreateDynamoDBUser"
      [] state = "CreateDynamoDBUser" -> "CreateCognitoUser"
      [] state = "CreateCognitoUser" -> "Pass"
      [] state = "CorrectLastId" -> "FindLastId"
      [] state = "RollbackUser" -> "CreateCognitoUser"

\* .next() of each state
NextState(state) ==
    CASE state = "FindLastId" -> "CreateDynamoDBUser"
      [] state = "CreateDynamoDBUser" -> "CreateCognitoUser"
      [] state = "CreateCognitoUser" -> "Pass"
      [] state = "CorrectLastId" -> "FindLastId"
      [] state = "RollbackUser" -> "Fail"

\* a catch matches the error names it lists, and nothing else
CaughtAll(state, err) == Catch(state).errors # {}

Caught(state, err) == err \in Catch(state).errors

\* state entered when `state` raises `err`: the catch target if the error
\* is listed, otherwise the execution fails
OnError(state, err) ==
    IF Caught(state, err) THEN Catch(state).next ELSE "Aborted"

Event(state, err, userId) == [state |-> state, error |-> err, userId |-> userId]

\* bookkeeping common to every task: move on, record the event
Succeed(i, state) ==
    /\ Len(history[i]) < MaxSteps
    /\ pc' = [pc EXCEPT ![i] = NextState(state)]
    /\ history' = [history EXCEPT ![i] = Append(@, Event(state, "", context'[i].userId))]
    /\ UNCHANGED <<error, cause>>

Raise(i, state, err) ==
    /\ Len(history[i]) < MaxSteps
    /\ pc' = [pc EXCEPT ![i] = OnError(state, err)]
    /\ history' = [history EXCEPT ![i] = Append(@, Event(state, err, context[i].userId))]
    /\ IF Caught(state, err)
       THEN /\ error' = [error EXCEPT ![i] = err]
            /\ UNCHANGED cause
       ELSE /\ cause' = [cause EXCEPT ![i] = err]
            /\ UNCHANGED error

\* records that may exist before any execution starts: a profile whose id is
\* the seeded LastId (ids are handed out from LastId + 1 on)
SeedItem == [FirstName |-> "Old", LastName |-> "O", EmailAddress |-> "old@x.org", PhoneNumber |-> "0"]
SeedProfileKeys(m) == IF m.exists THEN {ProfileKey(Format(m.LastId))} ELSE {}

\* -------------------------------------------------------------- Init
Init ==
    /\ pc = [i \in Invocations |-> "FindLastId"]
    /\ input \in [Invocations -> Persons]
    /\ context = [i \in Invocations |-> NoContext]
    /\ error = [i \in Invocations |-> ""]
    /\ cause = [i \in Invocations |-> ""]
    /\ metadata \in {NoMetadata} \cup {[exists |-> TRUE, LastId |-> n] : n \in StartIds}
    /\ \E keys \in SUBSET SeedProfileKeys(metadata) :
          profiles = [k \in keys |-> SeedItem]
    /\ \E names \in SUBSET SeedUsernames :
          pool = [u \in names |-> [email |-> "seed@x.org", email_verified |-> "true"]]
    /\ history = [i \in Invocations |-> <<>>]

\* ------------------------------------------------------------ actions
\* getItem USERMETADATA with ConsistentRead, resultSelector into $.context
FindLastId(i) ==
    /\ pc[i] = "FindLastId"
    /\ UNCHANGED <<input, metadata, profiles, pool>>
    /\ IF metadata.exists
       THEN /\ context' = [context EXCEPT ![i] =
                  [previousUserId |-> Format(metadata.LastId),
                   userId |-> Format(MathAdd(StringToJson(Format(metadata.LastId)), 1))]]
            /\ Succeed(i, "FindLastId")
       ELSE \* $.Item.LastId.N does not resolve
            /\ UNCHANGED context
            /\ Raise(i, "FindLastId", "States.Runtime")

\* ConditionExpression "attribute_not_exists(PK)" of the Put
PutCondition(key) == key \notin DOMAIN profiles

UpdateConditionExistsOnly(previousUserId) == metadata.exists

\* ConditionExpression "LastId = :previousUserId" of the Update
UpdateCondition(previousUserId) ==
    /\ metadata.exists
    /\ metadata.LastId = StringToJson(previousUserId)

\* the Item of the Put
ProfileItem(in) ==
    [FirstName |-> in.firstName, LastName |-> in.lastName,
     EmailAddress |-> in.emailAddress, PhoneNumber |-> in.phoneNumber]

PutItem(table, key, item) ==
    [k \in DOMAIN table \cup {key} |-> IF k = key THEN item ELSE table[k]]

DeleteItem(table, key) == [k \in DOMAIN table \ {key} |-> table[k]]

SetLastIdNotApplied(m, newUserId) == m

\* UpdateExpression "SET LastId = :newUserId"
SetLastId(m, newUserId) == [m EXCEPT !.LastId = StringToJson(newUserId)]

\* transactWriteItems commits both items when both conditions hold
TransactCommits(key, previousUserId) ==
    PutCondition(key) /\ UpdateCondition(previousUserId)

TransactProfilesPerItem(key, item, previousUserId) ==
    IF PutCondition(key) THEN PutItem(profiles, key, item) ELSE profiles

\* the table after transactWriteItems: all or nothing
TransactProfiles(key, item, previousUserId) ==
    IF TransactCommits(key, previousUserId) THEN PutItem(profiles, key, item) ELSE profiles

TransactMetadata(key, previousUserId, newUserId) ==
    IF TransactCommits(key, previousUserId) THEN SetLastId(metadata, newUserId) ELSE metadata

\* transactWriteItems: Put the profile, Update USERMETADATA; resultPath DISCARD
CreateDynamoDBUser(i) ==
    LET key == ProfileKey(context[i].userId)
        prev == context[i].previousUserId
    IN  /\ pc[i] = "CreateDynamoDBUser"
        /\ UNCHANGED <<input, context, pool>>
        /\ profiles' = TransactProfiles(key, ProfileItem(input[i]), prev)
        /\ metadata' = TransactMetadata(key, prev, context[i].userId)
        /\ IF TransactCommits(key, prev)
           THEN Succeed(i, "CreateDynamoDBUser")
           ELSE Raise(i, "CreateDynamoDBUser", "DynamoDb.TransactionCanceledException")

CorrectConditionNotOlder(previousUserId) ==
    /\ metadata.exists
    /\ metadata.LastId >= StringToJson(previousUserId)

\* ConditionExpression "LastId = :previousUserId" of CorrectLastId
CorrectCondition(previousUserId) ==
    /\ metadata.exists
    /\ metadata.LastId = StringToJson(previousUserId)

\* USERMETADATA after the conditional updateItem of CorrectLastId
CorrectedMetadata(previousUserId, newUserId) ==
    IF CorrectCondition(previousUserId) THEN SetLastId(metadata, newUserId) ELSE metadata

\* updateItem USERMETADATA, conditional; the state has no catch
CorrectLastId(i) ==
    /\ pc[i] = "CorrectLastId"
    /\ UNCHANGED <<input, context, profiles, pool>>
    /\ metadata' = CorrectedMetadata(context[i].previousUserId, context[i].userId)
    /\ IF CorrectCondition(context[i].previousUserId)
       THEN Succeed(i, "CorrectLastId")
       ELSE Raise(i, "CorrectLastId", "DynamoDb.ConditionalCheckFailedException")

\* the user pool after adminCreateUser
CreatedUser(username, email) ==
    [u \in DOMAIN pool \cup {username} |->
        IF u = username THEN [email |-> email, email_verified |-> "true"] ELSE pool[u]]

\* adminCreateUser with Username = $.context.userId
CreateCognitoUser(i) ==
    /\ pc[i] = "CreateCognitoUser"
    /\ UNCHANGED <<input, context, metadata, profiles>>
    /\ IF context[i].userId \in DOMAIN pool
       THEN /\ UNCHANGED pool
            /\ Raise(i, "CreateCognitoUser", "CognitoIdentityProvider.UsernameExistsException")
       ELSE /\ pool' = CreatedUser(context[i].userId, input[i].emailAddress)
            /\ Succeed(i, "CreateCognitoUser")

RolledBackProfilesOtherKey(userId) == DeleteItem(profiles, <<"USERPROFILE", userId>>)

RolledBackProfilesPreviousId(userId) ==
    DeleteItem(profiles, ProfileKey(Format(StringToJson(userId) - 1)))

\* the table after deleteItem of RollbackUser
RolledBackProfiles(userId) == DeleteItem(profiles, ProfileKey(userId))

RolledBackMetadataReverted(previousUserId) ==
    [metadata EXCEPT !.LastId = StringToJson(previousUserId)]

\* USERMETADATA after RollbackUser: the parameters name the profile key only
RolledBackMetadata(previousUserId) == metadata

\* deleteItem of the profile keyed by $.context.userId
RollbackUser(i) ==
    /\ pc[i] = "RollbackUser"
    /\ UNCHANGED <<input, context, pool>>
    /\ profiles' = RolledBackProfiles(context[i].userId)
    /\ metadata' = RolledBackMetadata(context[i].previousUserId)
    /\ Succeed(i, "RollbackUser")

\* errors a service call can raise that no addCatch lists
UnclassifiedError(state) ==
    IF state = "CreateCognitoUser"
    THEN "CognitoIdentityProvider.TooManyRequestsException"
    ELSE "DynamoDb.ProvisionedThroughputExceededException"

Unclassified ==
    {UnclassifiedError(s) : s \in TaskStates} \cup {"States.Runtime"}

\* a task's service call fails with an error outside its catch list
TaskFault(i) ==
    /\ pc[i] \in TaskStates
    /\ UNCHANGED <<input, context, metadata, profiles, pool>>
    /\ Raise(i, pc[i], UnclassifiedError(pc[i]))

Next ==
    \E i \in Invocations :
        \/ FindLastId(i)
        \/ CreateDynamoDBUser(i)
        \/ CorrectLastId(i)
        \/ CreateCognitoUser(i)
        \/ RollbackUser(i)
        \/ TaskFault(i)

Spec == Init /\ [][Next]_vars

\* the state an execution is in is run: an express execution is driven to
\* its end by the service, state after state
Run(i) ==
    \/ FindLastId(i)
    \/ CreateDynamoDBUser(i)
    \/ CorrectLastId(i)
    \/ CreateCognitoUser(i)
    \/ RollbackUser(i)

FairSpec == Spec /\ \A i \in Invocations : WF_vars(Run(i))

TypeOK ==
    /\ pc \in [Invocations -> TaskStates \cup Stopped]
    /\ metadata.LastId \in Nat
    /\ \A i \in Invocations : pc[i] = "Aborted" <=> cause[i] # ""

\* ------------------------------------------------- reading the history
\* positions of the committed / rejected CreateDynamoDBUser events of i
Commits(i) ==
    {n \in DOMAIN history[i] :
        history[i][n].state = "CreateDynamoDBUser" /\ history[i][n].error = ""}

Rejections(i) ==
    {n \in DOMAIN history[i] :
        /\ history[i][n].state = "CreateDynamoDBUser"
        /\ history[i][n].error \in {"DynamoDB.ConditionalCheckFailedException",
                                    "DynamoDb.TransactionCanceledException"}}

Reads(i) ==
    {n \in DOMAIN history[i] :
        history[i][n].state = "FindLastId" /\ history[i][n].error = ""}

Registered(i) ==
    \E n \in DOMAIN history[i] :
        history[i][n].state = "CreateCognitoUser" /\ history[i][n].error = ""

\* i ran a task in this step
Stepped(i) == history'[i] # history[i]
LastEvent(i) == history'[i][Len(history'[i])]

StoreUnchanged == UNCHANGED <<metadata, profiles, pool>>

\* ------------------------------------------------------------- claims
\* C1: each user id is committed by at most one successful
\* CreateDynamoDBUser transaction, ever: two executions that read the same
\* counter value never both commit, and an id whose profile RollbackUser
\* removed is never committed again.
C1_IdCommittedAtMostOnce ==
    \A i, j \in Invocations :
        \A m \in Commits(i) : \A n \in Commits(j) :
            history[i][m].userId = history[j][n].userId => (i = j /\ m = n)

\* two executions read the same counter value; one committed the id and
\* rolled its profile back, the other was rejected for that id
C1_Witness ==
    \E i, j \in Invocations :
        /\ i # j
        /\ context[i] = context[j]
        /\ Commits(i) # {}
        /\ pc[i] = "Fail"
        /\ Rejections(j) # {}

\* C2: the transaction an execution commits moves LastId from the
\* previousUserId it read to exactly previousUserId + 1, its userId, and
\* when the execution enters Pass a profile keyed by that userId exists,
\* holding the caller's fields.
C2_SuccessAdvancesByOne ==
    [][\A i \in Invocations :
        /\ (pc[i] = "CreateDynamoDBUser" /\ pc'[i] = "CreateCognitoUser") =>
              /\ metadata.LastId = StringToJson(context[i].previousUserId)
              /\ metadata'.LastId = metadata.LastId + 1
              /\ Format(metadata'.LastId) = context[i].userId
        /\ (pc[i] # "Pass" /\ pc'[i] = "Pass") =>
              /\ ProfileKey(context'[i].userId) \in DOMAIN profiles'
              /\ profiles'[ProfileKey(context'[i].userId)] = ProfileItem(input'[i])
              /\ Cardinality(Commits(i)) = 1
      ]_vars

\* an execution succeeded with the two-digit id 10, read after id 9
C2_Witness ==
    \E i \in Invocations :
        /\ pc[i] = "Pass"
        /\ context[i] = [previousUserId |-> <<9>>, userId |-> <<1, 0>>]

\* C3 (as claimed): an execution whose Write was rejected, and which meets
\* no other fault, passes through CorrectLastId, re-reads, commits a
\* strictly higher id and ends in Pass; the conflict does not fail it.
C3_LoserCommitsHigherId ==
    \A i \in Invocations :
        ( /\ Rejections(i) # {}
          /\ pc[i] \in Stopped
          /\ cause[i] \notin Unclassified
          /\ error[i] # "CognitoIdentityProvider.UsernameExistsException" )
        => /\ pc[i] = "Pass"
           /\ \A m \in Rejections(i) :
                StringToJson(context[i].userId) > StringToJson(history[i][m].userId)

\* C4 (as claimed): CorrectLastId run when LastId has moved past
\* previousUserId changes nothing in the store and goes on to FindLastId.
C4_CorrectorFailureIgnored ==
    [][\A i \in Invocations :
        ( /\ pc[i] = "CorrectLastId"
          /\ metadata.LastId > StringToJson(context[i].previousUserId)
          /\ Stepped(i)
          /\ LastEvent(i).error \notin Unclassified )
        => (pc'[i] = "FindLastId" /\ StoreUnchanged)
      ]_vars

\* C5: when an execution enters Fail (after the username-exists fault and
\* RollbackUser), the profile it wrote is gone and LastId is still at least
\* its userId; the RollbackUser step leaves USERMETADATA unchanged.
C5_RollbackKeepsCounter ==
    [][\A i \in Invocations :
        /\ (pc[i] # "Fail" /\ pc'[i] = "Fail") =>
              /\ error[i] = "CognitoIdentityProvider.UsernameExistsException"
              /\ Commits(i) # {}
              /\ ProfileKey(context[i].userId) \in DOMAIN profiles
              /\ ProfileKey(context[i].userId) \notin DOMAIN profiles'
              /\ metadata' = metadata
              /\ metadata'.LastId >= StringToJson(context[i].userId)
        /\ (pc[i] = "Fail") => ProfileKey(context[i].userId) \notin DOMAIN profiles'
      ]_vars

\* an execution ended in Fail: id 9 is skipped, LastId stays 9
C5_Witness ==
    \E i \in Invocations :
        /\ pc[i] = "Fail"
        /\ context[i].userId = <<9>>
        /\ metadata.LastId = 9
        /\ ProfileKey(<<9>>) \notin DOMAIN profiles

\* C6 (as claimed): after every rejected Write, the execution (unless an
\* unenumerated fault stops it) reads the counter again, and any later
\* Write attempt uses a strictly greater userId.
C6_RejectedWriteIsReRead ==
    \A i \in Invocations :
        (pc[i] \in Stopped /\ cause[i] \notin Unclassified) =>
            \A m \in Rejections(i) :
                /\ \E n \in Reads(i) : n > m
                /\ \A k \in DOMAIN history[i] :
                      (k > m /\ history[i][k].state = "CreateDynamoDBUser") =>
                          StringToJson(history[i][k].userId)
                              > StringToJson(history[i][m].userId)

C8_ProfileIffAccount ==
    \A i \in Invocations :
        pc[i] \in Stopped =>
            ( (Commits(i) # {} /\ ProfileKey(context[i].userId) \in DOMAIN profiles)
              <=> Registered(i) )

\* C9: an error outside the two enumerated classes, at any task, fails the
\* execution in that step with the store unchanged, and a failed execution
\* runs no further state.
C9_OtherFaultsAbort ==
    [][\A i \in Invocations :
        /\ ( /\ Stepped(i)
             /\ LastEvent(i).error # ""
             /\ ~ ( /\ LastEvent(i).state = "CreateDynamoDBUser"
                    /\ LastEvent(i).error \in
                          {"DynamoDB.ConditionalCheckFailedException",
                           "DynamoDb.TransactionCanceledException"} )
             /\ ~ ( /\ LastEvent(i).state = "CreateCognitoUser"
                    /\ LastEvent(i).error =
                          "CognitoIdentityProvider.UsernameExistsException" ) )
           => (pc'[i] = "Aborted" /\ StoreUnchanged)
        /\ pc[i] = "Aborted" => (pc'[i] = "Aborted" /\ ~Stepped(i))
      ]_vars

\* executions were failed by an unlisted error at CreateCognitoUser, after
\* the profile was written, and at CorrectLastId
C9_Witness ==
    \E i, j \in Invocations :
        /\ pc[i] = "Aborted"
        /\ history[i][Len(history[i])].state = "CreateCognitoUser"
        /\ pc[j] = "Aborted"
        /\ history[j][Len(history[j])].state = "CorrectLastId"

\* C10: a rejected CreateDynamoDBUser changes nothing: when the profile key
\* exists or LastId differs from previousUserId, the step leaves the
\* profiles and USERMETADATA as they were (and is rejected).
C10_RejectedWriteChangesNothing ==
    [][\A i \in Invocations :
        ( /\ pc[i] = "CreateDynamoDBUser"
          /\ Stepped(i)
          /\ \/ ProfileKey(context[i].userId) \in DOMAIN profiles
             \/ ~metadata.exists
             \/ metadata.LastId # StringToJson(context[i].previousUserId) )
        => /\ profiles' = profiles
           /\ metadata' = metadata
           /\ pc'[i] # "CreateCognitoUser"
      ]_vars

\* a Write was rejected on the counter alone: its profile key was free
C10_Witness ==
    \E i \in Invocations :
        /\ pc[i] = "CorrectLastId"
        /\ ProfileKey(context[i].userId) \notin DOMAIN profiles
        /\ metadata.LastId # StringToJson(context[i].previousUserId)

\* C11: from a table in which no profile id exceeds LastId, whenever
\* CorrectLastId runs LastId has already moved past previousUserId (the
\* rejected Write left nothing behind), so its update never succeeds: the
\* step changes nothing in the store and never goes on to FindLastId.
C11_CorrectorNeverSucceeds ==
    [][\A i \in Invocations :
        (pc[i] = "CorrectLastId" /\ Stepped(i)) =>
            /\ metadata.LastId > StringToJson(context[i].previousUserId)
            /\ ProfileKey(context[i].userId) \notin DOMAIN profiles
                  \/ \E j \in Invocations \ {i} : \E n \in Commits(j) :
                        history[j][n].userId = context[i].userId
            /\ StoreUnchanged
            /\ pc'[i] = "Aborted"
      ]_vars

\* CorrectLastId ran and its condition failed
C11_Witness ==
    \E i \in Invocations :
        /\ pc[i] = "Aborted"
        /\ cause[i] = "DynamoDb.ConditionalCheckFailedException"
        /\ history[i][Len(history[i])].state = "CorrectLastId"

\* C12: after the username-exists fault an execution runs RollbackUser and
\* nothing else (no FindLastId, CreateDynamoDBUser or CreateCognitoUser),
\* RollbackUser goes on to Fail, and an execution in Pass or Fail takes no
\* further step.
C12_NoRetryAfterUsernameExists ==
    [][\A i \in Invocations :
        /\ ( /\ Stepped(i)
             /\ \E n \in DOMAIN history[i] :
                   history[i][n].error = "CognitoIdentityProvider.UsernameExistsException" )
           => /\ LastEvent(i).state = "RollbackUser"
              /\ pc'[i] \in {"Fail", "Aborted"}
              /\ history[i][Len(history[i])].error =
                    "CognitoIdentityProvider.UsernameExistsException"
        /\ pc[i] \in {"Pass", "Fail"} => (pc'[i] = pc[i] /\ ~Stepped(i))
      ]_vars

\* an execution went FindLastId, CreateDynamoDBUser, CreateCognitoUser
\* (username exists), RollbackUser and is in Fail while another still runs
C12_Witness ==
    \E i, j \in Invocations :
        /\ pc[i] = "Fail"
        /\ Len(history[i]) = 4
        /\ pc[j] \in TaskStates

\* C13: a successful FindLastId changes nothing in the table or the pool,
\* leaves the caller's input as it was, and sets previousUserId to the
\* decimal string of LastId at that moment and userId to that of LastId + 1.
C13_FindLastIdReadsOnly ==
    [][\A i \in Invocations :
        (pc[i] = "FindLastId" /\ pc'[i] = "CreateDynamoDBUser") =>
            /\ StoreUnchanged
            /\ input' = input
            /\ StringToJson(context'[i].previousUserId) = metadata.LastId
            /\ StringToJson(context'[i].userId) = metadata.LastId + 1
            /\ context'[i].previousUserId[1] # 0 \/ metadata.LastId = 0
            /\ context'[i].userId[1] # 0
            /\ \A j \in Invocations \ {i} : context'[j] = context[j]
      ]_vars

\* FindLastId read LastId = 9 and allocated the two-digit id 10
C13_Witness ==
    \E i \in Invocations :
        /\ pc[i] = "CreateDynamoDBUser"
        /\ context[i].previousUserId = <<9>>
        /\ context[i].userId = <<1, 0>>

\* C14: no profile record has an id greater than LastId.
C14_NoProfileAboveCounter ==
    \A k \in DOMAIN profiles : StringToJson(k[2]) <= metadata.LastId

\* two ids were committed: profiles 9 and 10 exist and LastId is 10
C14_Witness ==
    /\ metadata.LastId = 10
    /\ {ProfileKey(<<9>>), ProfileKey(<<1, 0>>)} \subseteq DOMAIN profiles

\* C15: a profile disappears only in a RollbackUser step of the execution
\* that committed it in its own last Write; no other execution committed
\* that id, and the profile of an execution in Pass stays.
C15_RollbackDeletesOwnProfileOnly ==
    [][/\ \A k \in DOMAIN profiles \ DOMAIN profiles' :
            \E i \in Invocations :
                /\ pc[i] = "RollbackUser"
                /\ Stepped(i)
                /\ k = ProfileKey(context[i].userId)
                /\ \E n \in Commits(i) : history[i][n].userId = context[i].userId
                /\ \A j \in Invocations \ {i} : \A n \in Commits(j) :
                      history[j][n].userId # context[i].userId
       /\ \A j \in Invocations :
            pc[j] = "Pass" => ProfileKey(context[j].userId) \in DOMAIN profiles'
      ]_vars

\* one execution rolled back its profile while the profile of another that
\* succeeded, and the seeded one, are still there
C15_Witness ==
    \E i, j \in Invocations :
        /\ pc[i] = "Fail"
        /\ pc[j] = "Pass"
        /\ ProfileKey(context[j].userId) \in DOMAIN profiles
        /\ ProfileKey(<<8>>) \in DOMAIN profiles

\* C16: with finitely many executions, each started once and each run
\* under weak fairness, every execution eventually stops in Pass, Fail or
\* as a failed execution.
C16_EveryExecutionStops ==
    \A i \in Invocations : <>(pc[i] \in Stopped)

\* every execution has stopped, one of them after a rejected Write
C16_Witness ==
    /\ \A i \in Invocations : pc[i] \in Stopped
    /\ \E i \in Invocations : Rejections(i) # {}
====
